---- MODULE Spec2Model ----
(***************************************************************************)
(* Boundary-tag allocator with segregated free lists (my_malloc.c).        *)
(*                                                                         *)
(* Memory is modelled word by word: mem maps every mapped 8-byte-aligned   *)
(* byte address to the 64-bit word stored there.  A Header at address h    *)
(* is the four words  h (size|state), h+8 (leftSize), h+16 (next) and      *)
(* h+24 (prev); the user's data of an allocated block starts at h+16, on   *)
(* top of next/prev.  The sentinels freelists[i] are Headers in a global   *)
(* array, the regions obtained with sbrk follow at higher addresses.       *)
(*                                                                         *)
(* size_t values are kept as small signed representatives: a word in       *)
(* [2^64-K, 2^64) is written as the negative number word-2^64, so that     *)
(* + and - are the machine's arithmetic mod 2^64 and only the unsigned     *)
(* comparison needs an operator of its own (ULt).                          *)
(*                                                                         *)
(* An access to an address outside the mapped words (NULL, an address      *)
(* below the heap, freelists[-k], ...) has no defined outcome: the model   *)
(* stops the call there (ok = FALSE), keeps the words as they were at that *)
(* moment and ends in outcome "fault", after which nothing is modelled.    *)
(*                                                                         *)
(* The model is the build -DARENA_SIZE=128 -DNUM_LISTS=4 (both are         *)
(* #ifndef knobs of my_malloc.h); list NUM_LISTS-1 is the catch-all and    *)
(* the fresh interior block falls in it, as in the default build.          *)
(***************************************************************************)
EXTENDS Integers, Sequences, FiniteSets, TLC

ALLOC_HEADER_SIZE == 16
UNALLOC_HEADER_SIZE == 32
MULTIPLE_8 == 8
ARENA_SIZE == 128
NUM_LISTS == 4
MAX_NUM_CHUNKS == 1024

UNALLOCATED == 0
ALLOCATED == 1
FENCEPOST == 2

NULL == 0

\* bounds of the model: calls made in a run, regions obtained from the OS,
\* calls made in a run of the small workload
MaxCalls == 7
MaxArenas == 2
MaxCallsDeep == 9
MaxCallsPairs == 7
NumThreads == 2
MaxCallsThreads == 4

\* bytes another user of sbrk takes between two regions of the allocator
ForeignBytes == ALLOC_HEADER_SIZE

\* address of freelists[0] and of the initial program break
FreelistsBase == 2 * UNALLOC_HEADER_SIZE
HeapBase == FreelistsBase + NUM_LISTS * UNALLOC_HEADER_SIZE + 64

VARIABLES
    mem,            \* mapped word address -> word
    brk,            \* the program break: what the next sbrk returns
    chunkList,      \* chunkList[0 .. numChunks-1], here 1-based
    lastFencepost,  \* right fencepost of the most recent region
    arenas,         \* addresses sbrk returned to the allocator, in order
    live,           \* pointers returned by myMalloc and not yet freed
    freed,          \* pointers freed since the last myMalloc call
    outcome,        \* "running", "exit1" (exit(1) was called) or "fault"
    calls,          \* number of calls made so far
    workload,       \* the user program of this run: its request sizes, its length
    last,           \* the last call: operation, argument, result, and (when the
                    \* workload keeps it) the call made before it
    thr             \* the threads: where each one is in myMalloc/myFree, the call
                    \* it makes, who holds the mutex, the calls in locking order

vars == <<mem, brk, chunkList, lastFencepost, arenas, live, freed, outcome, calls, workload,
          last, thr>>

numChunks == Len(chunkList)

(***************************************************************************)
(* Words and headers.  s is a running memory [m |-> words, ok |-> no       *)
(* access outside m so far].                                               *)
(***************************************************************************)
Words(lo, n) == {lo + 8 * k : k \in 0 .. (n \div 8) - 1}

Rd(s, a) == IF a \in DOMAIN s.m THEN s.m[a] ELSE 0

Chk(s, a) == IF s.ok /\ a \in DOMAIN s.m THEN s ELSE [s EXCEPT !.ok = FALSE]

Wr(s, a, v) ==
    IF s.ok /\ a \in DOMAIN s.m THEN [s EXCEPT !.m[a] = v]
    ELSE [s EXCEPT !.ok = FALSE]

\* unsigned a < b on the signed representatives
ULt(a, b) == IF (a < 0) = (b < 0) THEN a < b ELSE b < 0

SizeOf(w) == w - (w % 4)
StateOf(w) == w % 4

getSize(s, hdr) == SizeOf(Rd(s, hdr))
getState(s, hdr) == StateOf(Rd(s, hdr))
setSize(s, hdr, size) == Wr(s, hdr, size + StateOf(Rd(s, hdr)))
setState(s, hdr, state) == Wr(s, hdr, SizeOf(Rd(s, hdr)) + state)

leftSizeOf(s, hdr) == Rd(s, hdr + 8)
nextOf(s, hdr) == Rd(s, hdr + 16)
prevOf(s, hdr) == Rd(s, hdr + 24)

getRightHeader(s, hdr) == hdr + getSize(s, hdr)
getLeftHeader(s, hdr) == hdr - leftSizeOf(s, hdr)
ptrToHeader(ptr) == ptr - ALLOC_HEADER_SIZE
dataOf(hdr) == hdr + ALLOC_HEADER_SIZE

freelistAddr(i) == FreelistsBase + i * UNALLOC_HEADER_SIZE

initFencepost(s, fp, leftSize) ==
    LET s1 == setState(s, fp, FENCEPOST)
        s2 == setSize(s1, fp, ALLOC_HEADER_SIZE)
    IN Wr(s2, fp + 8, leftSize)

insertFenceposts(s, rawMem, size) ==
    LET s1 == initFencepost(s, rawMem, ALLOC_HEADER_SIZE)
    IN initFencepost(s1, rawMem + size - ALLOC_HEADER_SIZE, size - 2 * ALLOC_HEADER_SIZE)

\* allocChunk after sbrk returned rawMem: the fresh words are zero pages
allocChunk(s, rawMem, size) ==
    LET fresh == [a \in Words(rawMem, size) |-> 0]
        s0 == [s EXCEPT !.m = fresh @@ s.m]
        s1 == insertFenceposts(s0, rawMem, size)
        hdr == rawMem + ALLOC_HEADER_SIZE
        s2 == setState(s1, hdr, UNALLOCATED)
        s3 == setSize(s2, hdr, size - 2 * ALLOC_HEADER_SIZE)
    IN Wr(s3, hdr + 8, ALLOC_HEADER_SIZE)

roundUp8(rawSize) ==
    IF rawSize % MULTIPLE_8 = 0 THEN rawSize
    ELSE ((rawSize \div MULTIPLE_8) + 1) * MULTIPLE_8

\* _calcActualSize without the minimum of line 217
_calcActualSize_NoMinimum(rawSize) == ALLOC_HEADER_SIZE + roundUp8(rawSize)

_calcActualSize(rawSize) ==
    LET actualSize == ALLOC_HEADER_SIZE + roundUp8(rawSize)
    IN IF actualSize > UNALLOC_HEADER_SIZE THEN actualSize ELSE UNALLOC_HEADER_SIZE

\* the int that (size_t)/8 - 1 truncates to; a wrapped size gives a negative index
_getFreelistIndex(actualSize) ==
    LET index == ((actualSize - ALLOC_HEADER_SIZE) \div MULTIPLE_8) - 1
    IN IF index < NUM_LISTS THEN index ELSE NUM_LISTS - 1

_isEmptyFreelist(s, hdr) == nextOf(s, hdr) = hdr

_isSameIndex(one, other) == one = other

_insertBlock(s, hdr) ==
    LET s0 == Chk(s, hdr)
        sentinel == freelistAddr(_getFreelistIndex(getSize(s0, hdr)))
        s1 == Chk(s0, sentinel + 16)
        s2 == IF ~_isEmptyFreelist(s1, sentinel)
              THEN LET t == Wr(s1, nextOf(s1, sentinel) + 24, hdr)
                   IN Wr(t, hdr + 16, nextOf(t, sentinel))
              ELSE LET t == Wr(s1, sentinel + 24, hdr)
                   IN Wr(t, hdr + 16, sentinel)
        s3 == Wr(s2, sentinel + 16, hdr)
    IN Wr(s3, hdr + 24, sentinel)

_removeBlock(s, hdr) ==
    LET s0 == Chk(Chk(s, hdr + 24), hdr + 16)
        s1 == Wr(s0, prevOf(s0, hdr) + 16, nextOf(s0, hdr))
    IN Wr(s1, nextOf(s1, hdr) + 24, prevOf(s1, hdr))

_updateBlock(s, hdr) == _insertBlock(_removeBlock(s, hdr), hdr)

_coalesceChunks(s, prevBlock, currBlock) ==
    LET s0 == Chk(Chk(s, prevBlock), currBlock)
        prevSecondFencepost == getRightHeader(s0, prevBlock)
        currSecondFencepost == getRightHeader(s0, currBlock)
    IN IF getState(s0, prevBlock) = UNALLOCATED
       THEN LET index == _getFreelistIndex(getSize(s0, prevBlock))
                coalescedSize == getSize(s0, prevBlock) + getSize(s0, currBlock)
                                 + 2 * ALLOC_HEADER_SIZE
                s1 == setSize(s0, prevBlock, coalescedSize)
                s2 == IF index # _getFreelistIndex(getSize(s1, prevBlock))
                      THEN _updateBlock(s1, prevBlock) ELSE s1
            IN Wr(s2, currSecondFencepost + 8, coalescedSize)
       ELSE LET coalescedSize == getSize(s0, currBlock) + 2 * ALLOC_HEADER_SIZE
                s1 == setSize(s0, prevSecondFencepost, coalescedSize)
                s2 == setState(s1, prevSecondFencepost, UNALLOCATED)
                s3 == _insertBlock(s2, prevSecondFencepost)
            IN Wr(s3, currSecondFencepost + 8, coalescedSize)

insertChunk(list, hdr) == IF Len(list) < MAX_NUM_CHUNKS THEN Append(list, hdr) ELSE list

\* the first list the for loop of _allocBlock does not skip
FirstSearched(s, index) ==
    LET cand == {i \in index .. NUM_LISTS - 1 :
                    ~(freelistAddr(i) = nextOf(s, freelistAddr(i)) /\ i # NUM_LISTS - 1)}
    IN CHOOSE i \in cand : \A j \in cand : i <= j

\* the candidate is allocated whole (lines 370-374)
AllocWhole(g, curr) ==
    LET s1 == setState(g.s, curr, ALLOCATED)
        s2 == _removeBlock(s1, curr)
    IN [g EXCEPT !.s = s2, !.ret = dataOf(curr)]

\* the candidate is split and its right part allocated (lines 377-399)
AllocSplit(g, i, curr, actualSize) ==
    LET s1 == setSize(g.s, curr, getSize(g.s, curr) - actualSize)
        currSize == getSize(s1, curr)
        rightBlock == getRightHeader(s1, curr)
        s2 == setSize(s1, rightBlock, actualSize)
        s3 == setState(s2, rightBlock, ALLOCATED)
        s4 == Wr(s3, rightBlock + 8, currSize)
        nextBlock == getRightHeader(s4, rightBlock)
        s5 == Wr(s4, nextBlock + 8, actualSize)
        newIndex == _getFreelistIndex(currSize)
        s6 == IF ~_isSameIndex(newIndex, i) THEN _updateBlock(s5, curr) ELSE s5
    IN [g EXCEPT !.s = s6, !.ret = dataOf(rightBlock)]

SplitsNot(currSize, actualSize) ==
    (currSize = actualSize) \/ ULt(currSize - actualSize, UNALLOC_HEADER_SIZE)

\* lines 402-424: a new region from the OS, stitched to the previous one or registered
GrowHeap(g) ==
    LET rawMem == g.brk
        s1 == allocChunk(g.s, rawMem, ARENA_SIZE)
        currBlock == rawMem + ALLOC_HEADER_SIZE
        currFirstFencepost == getLeftHeader(s1, currBlock)
        currSecondFencepost == getRightHeader(s1, currBlock)
        prevSecondFencepost == currFirstFencepost - ALLOC_HEADER_SIZE
        prevBlock == getLeftHeader(s1, prevSecondFencepost)
        contiguous == prevSecondFencepost = g.lastFencepost
        s2 == IF contiguous THEN _coalesceChunks(s1, prevBlock, currBlock)
              ELSE _insertBlock(s1, currBlock)
    IN [g EXCEPT !.s = s2,
                 !.brk = rawMem + ARENA_SIZE,
                 !.arenas = Append(g.arenas, rawMem),
                 !.chunkList = IF contiguous THEN g.chunkList
                               ELSE insertChunk(g.chunkList, currFirstFencepost),
                 !.lastFencepost = currSecondFencepost,
                 !.grew = g.grew + 1]

\* g = [s, brk, arenas, chunkList, lastFencepost, grew, capped, ret]
RECURSIVE _allocBlock(_, _, _)
_allocBlock(g, index, actualSize) ==
    LET i == FirstSearched(g.s, index)
        sentinel == freelistAddr(i)
        curr == nextOf(g.s, sentinel)
    IN IF curr # sentinel
       THEN LET g0 == [g EXCEPT !.s = Chk(g.s, curr)]
            IN IF SplitsNot(getSize(g0.s, curr), actualSize)
               THEN AllocWhole(g0, curr)
               ELSE AllocSplit(g0, i, curr, actualSize)
       ELSE IF Len(g.arenas) >= MaxArenas
            THEN [g EXCEPT !.capped = TRUE]
            ELSE LET g1 == GrowHeap(g)
                 IN IF g1.s.ok THEN _allocBlock(g1, index, actualSize) ELSE g1

\* allocObject without the test of line 433
allocObject_NoZeroTest(g, rawSize) ==
    _allocBlock(g, _getFreelistIndex(_calcActualSize(rawSize)), _calcActualSize(rawSize))

allocObject(g, rawSize) ==
    IF rawSize = 0 THEN [g EXCEPT !.ret = NULL]
    ELSE LET actualSize == _calcActualSize(rawSize)
             index == _getFreelistIndex(actualSize)
         IN _allocBlock(g, index, actualSize)

\* result [s, exit]: exit is TRUE when the double-free branch called exit(1)
deallocObject(s, ptr) ==
    IF ptr = NULL THEN [s |-> s, exit |-> FALSE]
    ELSE
    LET currBlock == ptrToHeader(ptr)
        s0 == Chk(Chk(s, currBlock), currBlock + 8)
        prevBlock == getLeftHeader(s0, currBlock)
        nextBlock == getRightHeader(s0, currBlock)
        s1 == Chk(Chk(s0, prevBlock), nextBlock)
        prevState == getState(s1, prevBlock)
        nextState == getState(s1, nextBlock)
    IN IF ~s1.ok THEN [s |-> s1, exit |-> FALSE]
       ELSE IF getState(s1, currBlock) = UNALLOCATED THEN [s |-> s1, exit |-> TRUE]
       ELSE
       LET s2 == setState(s1, currBlock, UNALLOCATED)
           s3 ==
             IF prevState = UNALLOCATED /\ nextState = UNALLOCATED THEN
                LET index == _getFreelistIndex(getSize(s2, prevBlock))
                    size == getSize(s2, prevBlock) + getSize(s2, currBlock)
                            + getSize(s2, nextBlock)
                    t1 == setSize(s2, prevBlock, size)
                    nextNextBlock == getRightHeader(t1, nextBlock)
                    t2 == Wr(t1, nextNextBlock + 8, size)
                    newIndex == _getFreelistIndex(getSize(t2, prevBlock))
                IN IF ~_isSameIndex(index, newIndex) THEN _updateBlock(t2, prevBlock) ELSE t2
             ELSE IF prevState = UNALLOCATED THEN
                LET index == _getFreelistIndex(getSize(s2, prevBlock))
                    size == getSize(s2, prevBlock) + getSize(s2, currBlock)
                    t1 == setSize(s2, prevBlock, size)
                    t2 == Wr(t1, nextBlock + 8, size)
                    newIndex == _getFreelistIndex(getSize(t2, prevBlock))
                IN IF ~_isSameIndex(index, newIndex) THEN _updateBlock(t2, prevBlock) ELSE t2
             ELSE IF nextState = UNALLOCATED THEN
                LET index == _getFreelistIndex(getSize(s2, nextBlock))
                    size == getSize(s2, nextBlock) + getSize(s2, currBlock)
                    t1 == setSize(s2, currBlock, size)
                    nextNextBlock == getRightHeader(t1, nextBlock)
                    t2 == Wr(t1, nextNextBlock + 8, size)
                    newIndex == _getFreelistIndex(getSize(t2, currBlock))
                IN IF ~_isSameIndex(index, newIndex) THEN _updateBlock(t2, currBlock) ELSE t2
             ELSE _insertBlock(s2, currBlock)
       IN [s |-> s3, exit |-> FALSE]

(***************************************************************************)
(* The program: init, myMalloc, myFree, and the other user of sbrk.        *)
(***************************************************************************)
\* the sizes the user asks for: the three classes of this build, and zero
ReqSizes == {0, 1, 24, 32, 48}

\* the sizes of the small workload, which runs longer
DeepSizes == {1, 32}

\* the sizes of the workload that looks at consecutive calls: one size of each
\* class a small request falls in, and one the fresh interior block cannot hold
PairSizes == {8, 24, 32, 88}

\* init(): the first region, the sentinels, the interior block linked by hand
InitMem ==
    LET globals == [a \in Words(FreelistsBase, NUM_LISTS * UNALLOC_HEADER_SIZE) |-> 0]
        s0 == allocChunk([m |-> globals, ok |-> TRUE], HeapBase, ARENA_SIZE)
        block == HeapBase + ALLOC_HEADER_SIZE
        linked == [a \in DOMAIN s0.m |->
                     IF \E i \in 0 .. NUM_LISTS - 1 :
                            a \in {freelistAddr(i) + 16, freelistAddr(i) + 24}
                     THEN LET i == CHOOSE i \in 0 .. NUM_LISTS - 1 :
                                      a \in {freelistAddr(i) + 16, freelistAddr(i) + 24}
                          IN IF i = NUM_LISTS - 1 THEN block ELSE freelistAddr(i)
                     ELSE IF a \in {block + 16, block + 24}
                     THEN freelistAddr(NUM_LISTS - 1)
                     ELSE s0.m[a]]
    IN linked

NoCall == [op |-> "none", arg |-> 0, ret |-> NULL]

Started ==
    /\ mem = InitMem
    /\ brk = HeapBase + ARENA_SIZE
    /\ chunkList = <<HeapBase>>
    /\ lastFencepost = HeapBase + ARENA_SIZE - ALLOC_HEADER_SIZE
    /\ arenas = <<HeapBase>>
    /\ live = {}
    /\ freed = {}
    /\ outcome = "running"
    /\ calls = 0
    /\ last = [op |-> "init", arg |-> 0, ret |-> NULL, grew |-> 0, fresh |-> TRUE,
                before |-> NoCall]

\* one thread only: a call runs from its lock to its unlock without interleaving
OneThread == [pc |-> <<>>, req |-> <<>>, view |-> <<>>, mutex |-> 0, order |-> <<>>]

Init ==
    /\ Started
    /\ workload = [sizes |-> ReqSizes, calls |-> MaxCalls, trace |-> FALSE]
    /\ thr = OneThread

InitDeep ==
    /\ Started
    /\ workload = [sizes |-> DeepSizes, calls |-> MaxCallsDeep, trace |-> FALSE]
    /\ thr = OneThread

InitPairs ==
    /\ Started
    /\ workload = [sizes |-> PairSizes, calls |-> MaxCallsPairs, trace |-> TRUE]
    /\ thr = OneThread

\* the call made before the one that is being made
Before ==
    IF workload.trace THEN [op |-> last.op, arg |-> last.arg, ret |-> last.ret] ELSE NoCall

Globals0 ==
    [s |-> [m |-> mem, ok |-> TRUE], brk |-> brk, arenas |-> arenas,
     chunkList |-> chunkList, lastFencepost |-> lastFencepost,
     grew |-> 0, capped |-> FALSE, ret |-> NULL]

\* myMalloc(size)
Malloc(size) ==
    /\ outcome = "running"
    /\ calls < workload.calls
    /\ calls' = calls + 1
    /\ UNCHANGED <<workload, thr>>
    /\ \E g \in {allocObject(Globals0, size)} :
          /\ ~g.capped
          /\ mem' = g.s.m
          /\ brk' = g.brk
          /\ arenas' = g.arenas
          /\ chunkList' = g.chunkList
          /\ lastFencepost' = g.lastFencepost
          /\ IF g.s.ok
             THEN /\ outcome' = "running"
                  /\ live' = IF g.ret = NULL THEN live ELSE live \cup {g.ret}
                  /\ freed' = IF size = 0 THEN freed ELSE {}
                  /\ last' = [op |-> "alloc", arg |-> size, ret |-> g.ret,
                              grew |-> g.grew, fresh |-> g.ret \notin live,
                              before |-> Before]
             ELSE /\ outcome' = "fault"
                  /\ UNCHANGED <<live, freed>>
                  /\ last' = [op |-> "alloc", arg |-> size, ret |-> NULL,
                              grew |-> g.grew, fresh |-> TRUE, before |-> Before]

\* myFree(ptr): op names the call in last
FreeCall(ptr, op) ==
    /\ outcome = "running"
    /\ calls < workload.calls
    /\ calls' = calls + 1
    /\ UNCHANGED <<workload, thr>>
    /\ \E r \in {deallocObject([m |-> mem, ok |-> TRUE], ptr)} :
          /\ mem' = r.s.m
          /\ last' = [op |-> op, arg |-> ptr, ret |-> NULL, grew |-> 0, fresh |-> TRUE,
                      before |-> Before]
          /\ IF ~r.s.ok THEN outcome' = "fault" /\ UNCHANGED <<live, freed>>
             ELSE IF r.exit THEN outcome' = "exit1" /\ UNCHANGED <<live, freed>>
             ELSE /\ outcome' = "running"
                  /\ live' = live \ {ptr}
                  /\ freed' = IF ptr = NULL THEN freed ELSE freed \cup {ptr}
    /\ UNCHANGED <<brk, arenas, chunkList, lastFencepost>>

\* myFree of a live pointer, or of NULL
Free(ptr) == ptr \in live \cup {NULL} /\ FreeCall(ptr, "free")

\* myFree of a pointer that was freed and no myMalloc(size > 0) came since
DoubleFree(ptr) == ptr \in freed \ live /\ FreeCall(ptr, "free2")

\* another caller of sbrk moves the break, at most once after each region
ForeignSbrk ==
    /\ outcome = "running"
    /\ calls < workload.calls
    /\ calls' = calls + 1
    /\ UNCHANGED <<workload, thr>>
    /\ brk = lastFencepost + ALLOC_HEADER_SIZE
    /\ Len(arenas) < MaxArenas
    /\ brk' = brk + ForeignBytes
    /\ mem' = [a \in Words(brk, ForeignBytes) |-> 0] @@ mem
    /\ last' = [op |-> "sbrk", arg |-> ForeignBytes, ret |-> brk, grew |-> 0, fresh |-> TRUE,
                before |-> Before]
    /\ UNCHANGED <<chunkList, lastFencepost, arenas, live, freed, outcome>>

Next ==
    \/ \E size \in workload.sizes : Malloc(size)
    \/ \E ptr \in live \cup {NULL} : Free(ptr)
    \/ \E ptr \in freed : DoubleFree(ptr)
    \/ ForeignSbrk

Spec == Init /\ [][Next]_vars

SpecDeep == InitDeep /\ [][Next]_vars

SpecPairs == InitPairs /\ [][Next]_vars

(***************************************************************************)
(* Several threads.  A thread is "idle" outside the allocator, at "lock"   *)
(* when it has called myMalloc/myFree and waits in pthread_mutex_lock, at  *)
(* "body" when the lock returned, at "unlock" when allocObject or          *)
(* deallocObject returned.  The body is not atomic: it works on what it    *)
(* read when it started (view) and its writes land when it ends.           *)
(***************************************************************************)
Threads == 1 .. NumThreads

ThreadSizes == {1, 32}

InitThreads ==
    /\ Started
    /\ workload = [sizes |-> ThreadSizes, calls |-> MaxCallsThreads, trace |-> FALSE]
    /\ thr = [pc |-> [t \in Threads |-> "idle"], req |-> [t \in Threads |-> NoCall],
              view |-> <<>>, mutex |-> 0, order |-> <<>>]

\* thread t enters myMalloc or myFree
Call(t, op, arg) ==
    /\ outcome = "running"
    /\ calls < workload.calls
    /\ thr.pc[t] = "idle"
    /\ calls' = calls + 1
    /\ thr' = [thr EXCEPT !.pc[t] = "lock", !.req[t] = [op |-> op, arg |-> arg, ret |-> NULL]]
    /\ UNCHANGED <<mem, brk, chunkList, lastFencepost, arenas, live, freed, outcome,
                   workload, last>>

CallMalloc(t, size) == Call(t, "alloc", size)

\* the program frees a pointer it holds, and no two threads free the same one
CallFree(t, ptr) ==
    /\ ptr \in live
    /\ \A u \in Threads : thr.pc[u] = "idle" \/ thr.req[u] # [op |-> "free", arg |-> ptr, ret |-> NULL]
    /\ Call(t, "free", ptr)

\* pthread_mutex_lock that returns although another thread holds the mutex
Lock_NoWait(t) ==
    /\ outcome = "running"
    /\ thr.pc[t] = "lock"
    /\ thr' = [thr EXCEPT !.pc[t] = "body", !.mutex = t,
                          !.view = (t :> Globals0) @@ thr.view,
                          !.order = Append(thr.order, thr.req[t])]
    /\ UNCHANGED <<mem, brk, chunkList, lastFencepost, arenas, live, freed, outcome,
                   calls, workload, last>>

\* pthread_mutex_lock(&mutex) returns in thread t (lines 688, 711)
Lock(t) ==
    /\ outcome = "running"
    /\ thr.pc[t] = "lock"
    /\ thr.mutex = 0
    /\ thr' = [thr EXCEPT !.pc[t] = "body", !.mutex = t,
                          !.view = (t :> Globals0) @@ thr.view,
                          !.order = Append(thr.order, thr.req[t])]
    /\ UNCHANGED <<mem, brk, chunkList, lastFencepost, arenas, live, freed, outcome,
                   calls, workload, last>>

\* the views of the threads other than t
OtherViews(t) == [u \in DOMAIN thr.view \ {t} |-> thr.view[u]]

\* allocObject(size) in thread t (line 689)
BodyMalloc(t) ==
    /\ outcome = "running"
    /\ thr.pc[t] = "body"
    /\ thr.req[t].op = "alloc"
    /\ \E g \in {allocObject(thr.view[t], thr.req[t].arg)} :
          /\ ~g.capped
          /\ mem' = g.s.m
          /\ brk' = g.brk
          /\ arenas' = g.arenas
          /\ chunkList' = g.chunkList
          /\ lastFencepost' = g.lastFencepost
          /\ outcome' = IF g.s.ok THEN "running" ELSE "fault"
          /\ last' = [op |-> "alloc", arg |-> thr.req[t].arg, ret |-> g.ret,
                      grew |-> g.grew, fresh |-> g.ret \notin live, before |-> NoCall]
          /\ thr' = [thr EXCEPT !.pc[t] = "unlock", !.req[t].ret = g.ret,
                                !.view = OtherViews(t)]
    /\ UNCHANGED <<live, freed, calls, workload>>

\* deallocObject(ptr) in thread t (line 712)
BodyFree(t) ==
    /\ outcome = "running"
    /\ thr.pc[t] = "body"
    /\ thr.req[t].op = "free"
    /\ \E r \in {deallocObject(thr.view[t].s, thr.req[t].arg)} :
          /\ mem' = r.s.m
          /\ outcome' = IF ~r.s.ok THEN "fault" ELSE IF r.exit THEN "exit1" ELSE "running"
          /\ live' = IF r.s.ok /\ ~r.exit THEN live \ {thr.req[t].arg} ELSE live
    /\ last' = [op |-> "free", arg |-> thr.req[t].arg, ret |-> NULL, grew |-> 0,
                fresh |-> TRUE, before |-> NoCall]
    /\ thr' = [thr EXCEPT !.pc[t] = "unlock", !.view = OtherViews(t)]
    /\ UNCHANGED <<brk, arenas, chunkList, lastFencepost, freed, calls, workload>>

\* pthread_mutex_unlock(&mutex) and the return (lines 690-692, 713-714)
Unlock(t) ==
    /\ outcome = "running"
    /\ thr.pc[t] = "unlock"
    /\ thr' = [thr EXCEPT !.pc[t] = "idle", !.mutex = 0]
    /\ live' = IF thr.req[t].ret # NULL THEN live \cup {thr.req[t].ret} ELSE live
    /\ UNCHANGED <<mem, brk, chunkList, lastFencepost, arenas, freed, outcome, calls,
                   workload, last>>

NextThreads ==
    \/ \E t \in Threads : \E size \in workload.sizes : CallMalloc(t, size)
    \/ \E t \in Threads : \E ptr \in live : CallFree(t, ptr)
    \/ \E t \in Threads : Lock(t)
    \/ \E t \in Threads : BodyMalloc(t)
    \/ \E t \in Threads : BodyFree(t)
    \/ \E t \in Threads : Unlock(t)

SpecThreads == InitThreads /\ [][NextThreads]_vars

(***************************************************************************)
(* verify(): the result is "true", "false", or "fault" when a walk leaves  *)
(* the mapped words.                                                       *)
(***************************************************************************)
Fuel == Cardinality(DOMAIN mem)

RECURSIVE HareLoop(_, _, _, _)
\* the loop of detectCycles on one list: NULL, the meeting node, or -1 on a fault
HareLoop(sentinel, slow, fast, fuel) ==
    IF fast = sentinel THEN NULL
    ELSE IF slow = fast THEN slow
    ELSE IF fuel = 0 \/ slow + 16 \notin DOMAIN mem \/ fast + 16 \notin DOMAIN mem
              \/ mem[fast + 16] + 16 \notin DOMAIN mem THEN -1
    ELSE HareLoop(sentinel, mem[slow + 16], mem[mem[fast + 16] + 16], fuel - 1)

detectCyclesIn(i) ==
    LET sentinel == freelistAddr(i)
        first == mem[sentinel + 16]
    IN IF first + 16 \notin DOMAIN mem THEN -1
       ELSE HareLoop(sentinel, first, mem[first + 16], 2 * Fuel)

detectCycles ==
    LET hit == {i \in 0 .. NUM_LISTS - 1 : detectCyclesIn(i) # NULL}
    IN IF hit = {} THEN NULL
       ELSE detectCyclesIn(CHOOSE i \in hit : \A j \in hit : i <= j)

RECURSIVE PointerLoop(_, _, _)
\* the loop of verifyPointers on one list
PointerLoop(freelist, curr, fuel) ==
    IF curr = freelist THEN NULL
    ELSE IF fuel = 0 \/ curr + 16 \notin DOMAIN mem \/ curr + 24 \notin DOMAIN mem
              \/ mem[curr + 16] + 24 \notin DOMAIN mem
              \/ mem[curr + 24] + 16 \notin DOMAIN mem THEN -1
    ELSE IF mem[mem[curr + 16] + 24] # curr \/ mem[mem[curr + 24] + 16] # curr THEN curr
    ELSE PointerLoop(freelist, mem[curr + 16], fuel - 1)

verifyPointers ==
    LET res == [i \in 0 .. NUM_LISTS - 1 |->
                    PointerLoop(freelistAddr(i), mem[freelistAddr(i) + 16], Fuel)]
        hit == {i \in 0 .. NUM_LISTS - 1 : res[i] # NULL}
    IN IF hit = {} THEN NULL ELSE res[CHOOSE i \in hit : \A j \in hit : i <= j]

\* "true", "false" or "fault"
verifyFreelist ==
    LET cycle == detectCycles
    IN IF cycle = -1 THEN "fault"
       ELSE IF cycle # NULL THEN "false"
       ELSE LET invalid == verifyPointers
            IN IF invalid = -1 THEN "fault"
               ELSE IF invalid # NULL THEN "false" ELSE "true"

RECURSIVE ChunkLoop(_, _)
\* the for loop of verifyChunk (line 617): it runs while chunk is not a FENCEPOST
ChunkLoop(chunk, fuel) ==
    IF fuel = 0 \/ chunk \notin DOMAIN mem THEN -1
    ELSE IF StateOf(mem[chunk]) # FENCEPOST
    THEN LET right == chunk + SizeOf(mem[chunk])
         IN IF right + 8 \notin DOMAIN mem THEN -1
            ELSE IF SizeOf(mem[chunk]) # mem[right + 8] THEN chunk
            ELSE ChunkLoop(right, fuel - 1)
    ELSE NULL

verifyChunk(chunk) ==
    IF StateOf(mem[chunk]) # FENCEPOST THEN chunk ELSE ChunkLoop(chunk, Fuel)

\* verifyTags returns a Header pointer as its bool: the invalid header, or NULL
verifyTags ==
    LET hit == {i \in 1 .. numChunks : verifyChunk(chunkList[i]) # NULL}
    IN IF hit = {} THEN NULL
       ELSE verifyChunk(chunkList[CHOOSE i \in hit : \A j \in hit : i <= j])

verify ==
    LET fl == verifyFreelist
    IN IF fl # "true" THEN fl
       ELSE LET tags == verifyTags
            IN IF tags = -1 THEN "fault" ELSE IF tags # NULL THEN "true" ELSE "false"

(***************************************************************************)
(* What the claims speak about: the blocks of the regions, the nodes of    *)
(* the free lists, the spans between a left and a right fencepost.         *)
(***************************************************************************)
RECURSIVE WalkFrom(_, _)
\* the blocks from a up to, and without, the next FENCEPOST
WalkFrom(a, fuel) ==
    IF fuel = 0 \/ a \notin DOMAIN mem THEN {}
    ELSE IF StateOf(mem[a]) = FENCEPOST \/ SizeOf(mem[a]) <= 0 THEN {}
    ELSE {a} \cup WalkFrom(a + SizeOf(mem[a]), fuel - 1)

\* the interior blocks of the region registered as chunkList[i]
Interior(i) == WalkFrom(chunkList[i] + SizeOf(mem[chunkList[i]]), Fuel)

\* every block of every region but the closing right fenceposts
Blocks == UNION {{chunkList[i]} \cup Interior(i) : i \in 1 .. numChunks}

FreeBlocks == {b \in Blocks : StateOf(mem[b]) = UNALLOCATED}

RECURSIVE ListFrom(_, _, _)
\* the nodes met following next from curr until the sentinel comes back
ListFrom(sentinel, curr, fuel) ==
    IF curr = sentinel \/ fuel = 0 \/ curr + 16 \notin DOMAIN mem THEN <<>>
    ELSE <<curr>> \o ListFrom(sentinel, mem[curr + 16], fuel - 1)

ListNodes(i) == ListFrom(freelistAddr(i), mem[freelistAddr(i) + 16], Fuel)

\* number of times block b is linked in list i
Linked(b, i) == Cardinality({k \in 1 .. Len(ListNodes(i)) : ListNodes(i)[k] = b})

RECURSIVE ListFromIn(_, _, _, _)
\* ListFrom in the memory m
ListFromIn(m, sentinel, curr, fuel) ==
    IF curr = sentinel \/ fuel = 0 \/ curr + 16 \notin DOMAIN m THEN <<>>
    ELSE <<curr>> \o ListFromIn(m, sentinel, m[curr + 16], fuel - 1)

\* the nodes of list i in the memory m
ListNodesIn(m, i) ==
    ListFromIn(m, freelistAddr(i), m[freelistAddr(i) + 16], Cardinality(DOMAIN m))

\* number of times block b is linked in list i in the memory m
LinkedIn(m, b, i) ==
    Cardinality({k \in 1 .. Len(ListNodesIn(m, i)) : ListNodesIn(m, i)[k] = b})

\* the right fencepost that closes the span the region of arenas[k] belongs to
RECURSIVE SpanEnd(_)
SpanEnd(k) ==
    IF k < Len(arenas) /\ arenas[k + 1] = arenas[k] + ARENA_SIZE THEN SpanEnd(k + 1)
    ELSE arenas[k] + ARENA_SIZE - ALLOC_HEADER_SIZE

\* [h, h+size) lies between the fenceposts of one span
InsideRegion(h, size) ==
    \E k \in 1 .. Len(arenas) :
        arenas[k] + ALLOC_HEADER_SIZE <= h /\ size > 0 /\ h + size <= SpanEnd(k)

LiveSize(p) == IF ptrToHeader(p) \in DOMAIN mem THEN SizeOf(mem[ptrToHeader(p)]) ELSE 0

(***************************************************************************)
(* Claims.                                                                 *)
(***************************************************************************)
Completed == outcome = "running"

\* C1: the blocks [headerOf(p), headerOf(p)+getSize) of the live allocations are
\* pairwise disjoint and each lies inside a region, between its fenceposts; a
\* pointer that is still live is never returned a second time.
C1_LiveBlocksDisjoint ==
    Completed =>
      /\ \A p \in live : InsideRegion(ptrToHeader(p), LiveSize(p))
      /\ \A p, q \in live :
            p < q => ptrToHeader(p) + LiveSize(p) <= ptrToHeader(q)
      /\ (last.op = "alloc" /\ last.ret # NULL => last.fresh)

\* C2: verify() returns true after initialisation and after every completed call.
C2_VerifyTrue == Completed => verify = "true"

\* C3: for every block X of every region other than the closing right fencepost,
\* the block Y found getSize(X) bytes after X has Y.leftSize = getSize(X).
C3_BoundaryTags ==
    Completed =>
      \A x \in Blocks :
         LET y == x + SizeOf(mem[x])
         IN y + 8 \in DOMAIN mem /\ mem[y + 8] = SizeOf(mem[x])

\* C4: every UNALLOCATED block is linked in exactly one free list, the list of
\* the class computed from its current size.
C4_FreeBlocksClassified ==
    Completed =>
      \A b \in FreeBlocks :
         \A i \in 0 .. NUM_LISTS - 1 :
            Linked(b, i) = IF i = _getFreelistIndex(SizeOf(mem[b])) THEN 1 ELSE 0

\* C5: no UNALLOCATED block has an in-memory right neighbour that is UNALLOCATED
\* too (which covers the left neighbours as well).
C5_NoAdjacentFree ==
    Completed =>
      \A b \in FreeBlocks :
         LET r == b + SizeOf(mem[b])
         IN r \in DOMAIN mem => StateOf(mem[r]) # UNALLOCATED

\* C6: when no allocation is live, the interior of every region is exactly one
\* UNALLOCATED block that reaches from the left to the right fencepost.
C6_AllFreedOneBlock ==
    (Completed /\ live = {}) =>
      \A i \in 1 .. numChunks :
         LET b == chunkList[i] + ALLOC_HEADER_SIZE
         IN /\ StateOf(mem[b]) = UNALLOCATED
            /\ \E k \in 1 .. Len(arenas) :
                  arenas[k] = chunkList[i] /\ b + SizeOf(mem[b]) = SpanEnd(k)

Returned == Completed /\ last.op = "alloc" /\ last.ret # NULL

\* C7: the block B whose user pointer alloc(n) returns has
\* getSize(B) >= ALLOC_HEADER_SIZE + n and
\* getSize(B) - ALLOC_HEADER_SIZE - roundUp8(n) < UNALLOC_HEADER_SIZE.
C7_ReturnedSize ==
    Returned =>
      LET size == LiveSize(last.ret)
      IN /\ size >= ALLOC_HEADER_SIZE + last.arg
         /\ size - ALLOC_HEADER_SIZE - roundUp8(last.arg) < UNALLOC_HEADER_SIZE

\* C8: a non-null pointer returned by alloc is ALLOC_HEADER_SIZE bytes past a
\* header whose state is ALLOCATED at the moment of return, and is a multiple of 8.
C8_ReturnedAllocated ==
    Returned =>
      /\ ptrToHeader(last.ret) \in DOMAIN mem
      /\ StateOf(mem[ptrToHeader(last.ret)]) = ALLOCATED
      /\ last.ret % MULTIPLE_8 = 0

C10_AllocZero ==
    [][(calls' = calls + 1 /\ last'.op = "alloc" /\ last'.arg = 0) =>
          /\ last'.ret = NULL
          /\ last'.grew = 0
          /\ outcome' = "running"
          /\ UNCHANGED <<mem, chunkList, lastFencepost, brk, arenas, live>>]_vars

\* alloc(0) was called while an allocation was live and a block was free
C10_Witness ==
    /\ Completed
    /\ last.op = "alloc"
    /\ last.arg = 0
    /\ last.ret = NULL
    /\ live # {}
    /\ freed # {}

\* the heap as init() leaves it: one region, one free interior block
Fresh == mem = InitMem /\ chunkList = <<HeapBase>> /\ live = {}

\* C11: on the freshly initialised heap, alloc(n) with
\* actualSize > ARENA_SIZE - 2*ALLOC_HEADER_SIZE obtains at least one region
\* (calls allocChunk) before it returns.
C11_BigRequestGrows ==
    [][(/\ Fresh
        /\ calls' = calls + 1
        /\ last'.op = "alloc"
        /\ _calcActualSize(last'.arg) > ARENA_SIZE - 2 * ALLOC_HEADER_SIZE)
       => last'.grew >= 1]_vars

RECURSIVE Returns(_, _, _)
\* following next from curr comes to the sentinel
Returns(sentinel, curr, fuel) ==
    IF curr = sentinel THEN TRUE
    ELSE IF fuel = 0 \/ curr + 16 \notin DOMAIN mem THEN FALSE
    ELSE Returns(sentinel, mem[curr + 16], fuel - 1)

\* n.next.prev == n and n.prev.next == n
LinkedBothWays(n) ==
    /\ n + 16 \in DOMAIN mem /\ n + 24 \in DOMAIN mem
    /\ mem[n + 16] + 24 \in DOMAIN mem /\ mem[n + 24] + 16 \in DOMAIN mem
    /\ mem[mem[n + 16] + 24] = n
    /\ mem[mem[n + 24] + 16] = n

\* C12: after init and after every completed call, each free list is a circular
\* doubly-linked list: next from the sentinel comes back to the sentinel, and
\* every node N on it, the sentinel included, has N.next.prev = N = N.prev.next.
C12_ListsWellFormed ==
    Completed =>
      \A i \in 0 .. NUM_LISTS - 1 :
         /\ Returns(freelistAddr(i), mem[freelistAddr(i) + 16], Fuel)
         /\ LinkedBothWays(freelistAddr(i))
         /\ \A k \in 1 .. Len(ListNodes(i)) : LinkedBothWays(ListNodes(i)[k])

\* the globals as init() leaves them
StartGlobals ==
    [s |-> [m |-> InitMem, ok |-> TRUE], brk |-> HeapBase + ARENA_SIZE,
     arenas |-> <<HeapBase>>, chunkList |-> <<HeapBase>>,
     lastFencepost |-> HeapBase + ARENA_SIZE - ALLOC_HEADER_SIZE,
     grew |-> 0, capped |-> FALSE, ret |-> NULL]

RECURSIVE Replay(_, _)
\* the globals after the calls of order were made one after the other
Replay(g, order) ==
    IF order = <<>> THEN g
    ELSE LET c == Head(order)
             g1 == IF c.op = "alloc" THEN allocObject(g, c.arg)
                   ELSE [g EXCEPT !.s = deallocObject(g.s, c.arg).s]
         IN Replay(g1, Tail(order))

\* the threads that are between their lock and their unlock
InBody == {t \in Threads : thr.pc[t] \in {"body", "unlock"}}

\* a header, a free list, the registry or lastFencepost is written in this step
HeapWritten ==
    \/ mem' # mem
    \/ chunkList' # chunkList
    \/ lastFencepost' # lastFencepost
    \/ arenas' # arenas

\* C13: with threads calling alloc and free in any interleaving, at most one
\* thread is in the body of allocObject or deallocObject and it holds the
\* mutex; a thread that returned has released it; when no call is in progress
\* the heap is the one the same calls give when made one after the other in the
\* order the lock was acquired; and every write to a header, a free list, the
\* registry or lastFencepost is made by the thread that holds the mutex.
C13_MutexSerializes ==
    /\ [](/\ Cardinality(InBody) <= 1
          /\ \A t \in InBody : thr.mutex = t
          /\ \A t \in Threads : thr.pc[t] \in {"idle", "lock"} => thr.mutex # t
          /\ (Completed /\ InBody = {}) =>
                LET g == Replay(StartGlobals, thr.order)
                IN /\ mem = g.s.m
                   /\ chunkList = g.chunkList
                   /\ lastFencepost = g.lastFencepost
                   /\ arenas = g.arenas)
    /\ [][HeapWritten =>
            \E t \in Threads :
               /\ thr.mutex = t
               /\ thr.pc[t] = "body"
               /\ thr'.pc[t] = "unlock"
               /\ \A u \in Threads \ {t} : thr'.pc[u] = thr.pc[u]]_vars

\* one thread waits for the mutex while the other is in the body, after two
\* calls of the two threads went through and changed the heap
C13_Witness ==
    /\ Completed
    /\ \E t, u \in Threads : thr.pc[t] = "body" /\ thr.pc[u] = "lock"
    /\ Len(thr.order) >= 3
    /\ \E i, j \in 1 .. Len(thr.order) : thr.order[i].op = "alloc" /\ thr.order[j].op = "free"
    /\ mem # InitMem

\* the last two calls were p = alloc(n); free(p) and both returned
AllocThenFree ==
    /\ Completed
    /\ last.op = "free"
    /\ last.arg # NULL
    /\ last.before.op = "alloc"
    /\ last.before.ret = last.arg

\* C14: for n in [1, ARENA_SIZE/2 - 2*ALLOC_HEADER_SIZE] and every reachable
\* heap, p = alloc(n); free(p); q = alloc(n) with nothing in between gives q = p.
C14_ReuseSameAddress ==
    [][(/\ AllocThenFree
        /\ calls' = calls + 1
        /\ last'.op = "alloc"
        /\ last'.arg = last.before.arg
        /\ last'.arg \in 1 .. (ARENA_SIZE \div 2) - 2 * ALLOC_HEADER_SIZE)
       => (outcome' = "running" /\ last'.ret = last.arg)]_vars

\* the blocks of p and q lie between the fenceposts of the same span
SameRegion(p, q) ==
    \E k \in 1 .. Len(arenas) :
       /\ arenas[k] + ALLOC_HEADER_SIZE <= ptrToHeader(p) /\ ptrToHeader(p) < SpanEnd(k)
       /\ arenas[k] + ALLOC_HEADER_SIZE <= ptrToHeader(q) /\ ptrToHeader(q) < SpanEnd(k)

\* p1 = alloc(8); p2 = alloc(8) were the two calls made since init
TwoAllocs8 ==
    /\ Completed
    /\ calls = 2
    /\ last.op = "alloc" /\ last.arg = 8
    /\ last.before.op = "alloc" /\ last.before.arg = 8

\* C15 as stated: on the fresh heap p1 = alloc(8); p2 = alloc(8) are in the same
\* region and p2 - p1 is 24 or 32.
C15_AsStated ==
    TwoAllocs8 =>
      /\ SameRegion(last.before.ret, last.ret)
      /\ last.ret - last.before.ret \in {24, 32}

\* C15 amended: on the fresh heap p1 = alloc(8); p2 = alloc(8) are in the same
\* region and p2 - p1 = -32: the second block is carved immediately below the
\* first, blocks being split off the right end of the free block.
C15_SecondBelowFirst ==
    TwoAllocs8 =>
      /\ SameRegion(last.before.ret, last.ret)
      /\ last.ret - last.before.ret = -32

\* the two calls were made and both returned a pointer
C15_Witness ==
    /\ TwoAllocs8
    /\ last.ret # NULL
    /\ last.before.ret # NULL
    /\ live = {last.ret, last.before.ret}

\* the class the for loop of _allocBlock walks for a request of n bytes
WalkedClass(n) ==
    FirstSearched([m |-> mem, ok |-> TRUE], _getFreelistIndex(_calcActualSize(n)))

\* position, head to tail, of the first block of the walked class that is
\* large enough for n bytes; 0 when there is none
FirstFit(n) ==
    LET nodes == ListNodes(WalkedClass(n))
        fits == {k \in 1 .. Len(nodes) :
                    /\ nodes[k] \in DOMAIN mem
                    /\ ~ULt(SizeOf(mem[nodes[k]]), _calcActualSize(n))}
    IN IF fits = {} THEN 0 ELSE CHOOSE k \in fits : \A j \in fits : k <= j

\* the call made in this step is alloc(n) with n > 0, on a heap left by a
\* completed call
AllocStep ==
    /\ Completed
    /\ calls' = calls + 1
    /\ last'.op = "alloc"
    /\ last'.arg > 0

\* C16: alloc's walk is first-fit: it returns the first block, head to tail, of
\* the class it walks whose size is >= actualSize, leaves the smaller blocks
\* before it unchanged (size, state, list position), and grows the heap only
\* when no block of the walked class is large enough.
C16_FirstFit ==
    [][AllocStep =>
         LET n == last'.arg
             i == WalkedClass(n)
             nodes == ListNodes(i)
             k == FirstFit(n)
         IN /\ k > 0 =>
                 /\ outcome' = "running"
                 /\ last'.grew = 0
                 /\ ptrToHeader(last'.ret) >= nodes[k]
                 /\ ptrToHeader(last'.ret) < nodes[k] + SizeOf(mem[nodes[k]])
                 /\ \A j \in 1 .. k - 1 :
                       /\ mem'[nodes[j]] = mem[nodes[j]]
                       /\ Len(ListNodesIn(mem', i)) >= j
                       /\ ListNodesIn(mem', i)[j] = nodes[j]
            /\ last'.grew >= 1 => k = 0]_vars

\* the candidate of alloc(n): the head of the class the walk starts on, NULL
\* when that list is empty
Candidate(n) ==
    LET nodes == ListNodes(WalkedClass(n))
    IN IF nodes = <<>> THEN NULL ELSE nodes[1]

\* C17: alloc splits its candidate C exactly when
\* getSize(C) - actualSize >= UNALLOC_HEADER_SIZE (in size_t, as the code
\* computes it) and else allocates C whole; after a split the remainder is at
\* C's address with size >= UNALLOC_HEADER_SIZE, the returned block is the
\* rightmost actualSize bytes of the original C, and the two sizes sum to C's
\* original size.
C17_SplitRule ==
    [][(AllocStep /\ Candidate(last'.arg) \in DOMAIN mem) =>
         LET c == Candidate(last'.arg)
             size == SizeOf(mem[c])
             actualSize == _calcActualSize(last'.arg)
             ret == ptrToHeader(last'.ret)
         IN /\ outcome' = "running"
            /\ IF ~ULt(size - actualSize, UNALLOC_HEADER_SIZE)
               THEN /\ StateOf(mem'[c]) = UNALLOCATED
                    /\ ~ULt(SizeOf(mem'[c]), UNALLOC_HEADER_SIZE)
                    /\ ret >= c
                    /\ ret = c + SizeOf(mem'[c])
                    /\ ret \in DOMAIN mem'
                    /\ mem'[ret] = actualSize + ALLOCATED
                    /\ ret + actualSize = c + size
                    /\ SizeOf(mem'[c]) + SizeOf(mem'[ret]) = size
               ELSE /\ ret = c
                    /\ mem'[c] = size + ALLOCATED]_vars

\* the call made in this step is free(p) of a live pointer, on a heap left by a
\* completed call, and the header of p and its two neighbours are mapped
FreeStep ==
    /\ Completed
    /\ calls' = calls + 1
    /\ last'.op = "free"
    /\ last'.arg # NULL
    /\ ptrToHeader(last'.arg) \in DOMAIN mem
    /\ getLeftHeader([m |-> mem, ok |-> TRUE], ptrToHeader(last'.arg)) \in DOMAIN mem
    /\ getRightHeader([m |-> mem, ok |-> TRUE], ptrToHeader(last'.arg)) \in DOMAIN mem

\* the state free(p) reads in its left (-1) or right (+1) neighbour
NeighbourState(side) ==
    LET B == ptrToHeader(last'.arg)
        N == IF side < 0 THEN getLeftHeader([m |-> mem, ok |-> TRUE], B)
             ELSE getRightHeader([m |-> mem, ok |-> TRUE], B)
    IN StateOf(mem[N])

\* C18: when free(p) finds both neighbours L and R of block B UNALLOCATED,
\* afterwards L has size L.size + B.size + R.size, the block after R has that
\* sum as leftSize, R is linked in no free list, and L is linked exactly once,
\* in the class of its new size.
C18_CoalesceBoth ==
    [][(/\ FreeStep
        /\ NeighbourState(-1) = UNALLOCATED
        /\ NeighbourState(1) = UNALLOCATED) =>
         LET B == ptrToHeader(last'.arg)
             L == B - mem[B + 8]
             R == B + SizeOf(mem[B])
             sum == SizeOf(mem[L]) + SizeOf(mem[B]) + SizeOf(mem[R])
         IN /\ outcome' = "running"
            /\ SizeOf(mem'[L]) = sum
            /\ StateOf(mem'[L]) = UNALLOCATED
            /\ R + SizeOf(mem[R]) + 8 \in DOMAIN mem'
            /\ mem'[R + SizeOf(mem[R]) + 8] = sum
            /\ \A i \in 0 .. NUM_LISTS - 1 :
                  /\ LinkedIn(mem', R, i) = 0
                  /\ LinkedIn(mem', L, i) = IF i = _getFreelistIndex(sum) THEN 1 ELSE 0]_vars

\* C19: when free(p) finds only the right neighbour R of block B UNALLOCATED,
\* afterwards B is UNALLOCATED with size B.size + R.size, the block after R has
\* that sum as leftSize, R is linked in no free list, and B is linked in the
\* class of its new size, whether or not that is the class R was in.
C19_CoalesceRight ==
    [][(/\ FreeStep
        /\ NeighbourState(-1) # UNALLOCATED
        /\ NeighbourState(1) = UNALLOCATED) =>
         LET B == ptrToHeader(last'.arg)
             R == B + SizeOf(mem[B])
             sum == SizeOf(mem[B]) + SizeOf(mem[R])
         IN /\ outcome' = "running"
            /\ SizeOf(mem'[B]) = sum
            /\ StateOf(mem'[B]) = UNALLOCATED
            /\ R + SizeOf(mem[R]) + 8 \in DOMAIN mem'
            /\ mem'[R + SizeOf(mem[R]) + 8] = sum
            /\ \A i \in 0 .. NUM_LISTS - 1 :
                  /\ LinkedIn(mem', R, i) = 0
                  /\ LinkedIn(mem', B, i) = IF i = _getFreelistIndex(sum) THEN 1 ELSE 0]_vars

RECURSIVE EndOfWalk(_, _, _)
\* the first FENCEPOST met walking right from block a in the memory m, -1 when
\* the walk leaves the mapped words or does not advance
EndOfWalk(m, a, fuel) ==
    IF fuel = 0 \/ a \notin DOMAIN m THEN -1
    ELSE IF StateOf(m[a]) = FENCEPOST THEN a
    ELSE IF SizeOf(m[a]) <= 0 THEN -1
    ELSE EndOfWalk(m, a + SizeOf(m[a]), fuel - 1)

\* the left fencepost of the span that lastFencepost closes
SpanStart ==
    LET ks == {k \in 1 .. Len(arenas) : SpanEnd(k) = lastFencepost}
    IN arenas[CHOOSE k \in ks : \A j \in ks : k <= j]

\* the next alloc of a catch-all size finds its list empty and obtains a
\* region, which starts immediately after the remembered last fencepost
GrowsContiguous ==
    /\ Completed
    /\ Len(arenas) < MaxArenas
    /\ mem[freelistAddr(NUM_LISTS - 1) + 16] = freelistAddr(NUM_LISTS - 1)
    /\ brk = lastFencepost + ALLOC_HEADER_SIZE
    /\ lastFencepost + 8 \in DOMAIN mem
    /\ lastFencepost - mem[lastFencepost + 8] \in DOMAIN mem

\* C20: when alloc grows the heap and the new region starts immediately after
\* lastFencepost, the two regions become one span: with P the block left of the
\* old right fencepost, P UNALLOCATED grows to
\* P.size + newInterior.size + 2*ALLOC_HEADER_SIZE, and with P ALLOCATED the old
\* right fencepost becomes an UNALLOCATED block of
\* newInterior.size + 2*ALLOC_HEADER_SIZE; that free block is linked in the
\* class of its size, the new right fencepost has that size as leftSize, no
\* FENCEPOST is left between the old left and the new right fencepost, the
\* registry gains no entry and lastFencepost is the new right fencepost.
C20_StitchRegions ==
    GrowsContiguous =>
      LET g == GrowHeap(Globals0)
          m == g.s.m
          P == lastFencepost - mem[lastFencepost + 8]
          newInterior == ARENA_SIZE - 2 * ALLOC_HEADER_SIZE
          newRight == brk + ARENA_SIZE - ALLOC_HEADER_SIZE
          free == IF StateOf(mem[P]) = UNALLOCATED THEN P ELSE lastFencepost
          size == IF StateOf(mem[P]) = UNALLOCATED
                  THEN SizeOf(mem[P]) + newInterior + 2 * ALLOC_HEADER_SIZE
                  ELSE newInterior + 2 * ALLOC_HEADER_SIZE
      IN /\ g.s.ok
         /\ m[free] = size + UNALLOCATED
         /\ \A i \in 0 .. NUM_LISTS - 1 :
               LinkedIn(m, free, i) = IF i = _getFreelistIndex(size) THEN 1 ELSE 0
         /\ m[newRight] = ALLOC_HEADER_SIZE + FENCEPOST
         /\ m[newRight + 8] = size
         /\ free + size = newRight
         /\ EndOfWalk(m, SpanStart + ALLOC_HEADER_SIZE, Cardinality(DOMAIN m)) = newRight
         /\ g.chunkList = chunkList
         /\ g.lastFencepost = newRight

\* C21: after every completed call, every non-sentinel node of every free list
\* is the header of a block that lies on a block boundary of a region and is
\* UNALLOCATED: no FENCEPOST, no ALLOCATED block and no header absorbed into a
\* larger block is linked.
C21_ListNodesAreFreeBlocks ==
    Completed =>
      \A i \in 0 .. NUM_LISTS - 1 :
         \A k \in 1 .. Len(ListNodes(i)) :
            /\ ListNodes(i)[k] \in Blocks
            /\ StateOf(mem[ListNodes(i)[k]]) = UNALLOCATED

\* the pointers of the blocks that are allocated before and after the call of
\* this step and are not the block the call allocates or frees
Bystanders ==
    {p \in live \cap live' :
        /\ p # last'.ret
        /\ p # last'.arg \/ last'.op = "alloc"
        /\ ptrToHeader(p) \in DOMAIN mem
        /\ StateOf(mem[ptrToHeader(p)]) = ALLOCATED}

\* C22: a call changes neither size nor state (and so not the address range) of
\* a block that is ALLOCATED before and after it and is not the block being
\* allocated or freed; its leftSize changes only when its left neighbour was
\* split or coalesced by the call: the new leftSize is then the size of the
\* block that now ends where the bystander starts, which is the block just
\* returned or a free block that holds the block just freed.
C22_Frame ==
    [][(Completed /\ calls' = calls + 1 /\ outcome' = "running"
           /\ last'.op \in {"alloc", "free"}) =>
         \A p \in Bystanders :
            LET h == ptrToHeader(p)
                left == h - mem'[h + 8]
            IN /\ mem'[h] = mem[h]
               /\ mem'[h + 8] # mem[h + 8] =>
                     /\ left \in DOMAIN mem'
                     /\ SizeOf(mem'[left]) = mem'[h + 8]
                     /\ IF last'.op = "alloc"
                        THEN left = ptrToHeader(last'.ret)
                        ELSE /\ StateOf(mem'[left]) = UNALLOCATED
                             /\ left <= ptrToHeader(last'.arg)
                             /\ ptrToHeader(last'.arg) < h]_vars

\* C23: every alloc call terminates: from every reachable heap the
\* search/grow/retry loop of alloc(n) returns a pointer after finitely many
\* steps, and with actualSize <= ARENA_SIZE - 2*ALLOC_HEADER_SIZE after at most
\* one region growth.  Checked for the calls whose accesses stay inside the
\* mapped memory, in the states that leave room for a growth: the call must
\* not come back to the OS for a region beyond the first one.
C23_AllocTerminates ==
    (Completed /\ Len(arenas) < MaxArenas) =>
      \A n \in workload.sizes \ {0} :
         LET g == allocObject(Globals0, n)
         IN g.s.ok =>
              /\ ~g.capped
              /\ g.ret # NULL
              /\ _calcActualSize(n) <= ARENA_SIZE - 2 * ALLOC_HEADER_SIZE => g.grew <= 1

\* some registered region does not begin with a FENCEPOST
BadStart == \E i \in 1 .. numChunks : StateOf(mem[chunkList[i]]) # FENCEPOST

\* some block met walking a registered region from its left fencepost to the
\* next FENCEPOST has a right neighbour whose leftSize is not the block's size
BadTag ==
    \E x \in Blocks :
       LET y == x + SizeOf(mem[x])
       IN y + 8 \notin DOMAIN mem \/ mem[y + 8] # SizeOf(mem[x])

\* some node of a free list has N.next.prev # N or N.prev.next # N
BadLink ==
    \E i \in 0 .. NUM_LISTS - 1 :
       \E k \in 1 .. Len(ListNodes(i)) : ~LinkedBothWays(ListNodes(i)[k])

\* C24: verify() returns false in every state in which some registered region
\* does not begin with a FENCEPOST, or some block of a registered region has
\* rightNeighbor(B).leftSize # getSize(B), or some free-list node is not
\* linked both ways.
C24_VerifyDetects ==
    (Completed /\ (BadStart \/ BadTag \/ BadLink)) => verify = "false"

====
